---- MODULE Spec2Model ----
(***************************************************************************)
(* BasicWebGPUAddition/script.js: the async function runWebGPUComputation   *)
(* and its single call.  The script is modelled statement by statement      *)
(* (pc is the source line of the next statement), together with the part    *)
(* of the host GPU API it drives: promises, buffers, the command encoder,   *)
(* the queue and the GPU timeline that executes submitted commands.         *)
(***************************************************************************)
EXTENDS Integers, Sequences, FiniteSets, TLC

VARIABLES
    navigator_gpu,  \* whether navigator.gpu is defined in this browser
    host,           \* how the host answers the three awaited requests
    pc,             \* source line of the next statement of the function
    status,         \* "running" | "suspended" | "returned" | "threw"
    promise,        \* state of the promise of each awaited request
    adapter,        \* const adapter: "unset" | "null" | "adapter"
    device,         \* const device: "unset" | "device"
    calls,          \* number of times each host call site was executed
    objects,        \* objects created through the device, by local name
    buffers,        \* GPU buffers, by local name
    encoder,        \* state of commandEncoder
    pass,           \* state of passEncoder
    submits,        \* length of the list handed to each queue.submit call
    queue,          \* submitted commands the GPU has not executed yet
    gpu,            \* pipeline and bind group of the pass the GPU executes
    resultArray,    \* the Uint32Array over the mapped range
    console         \* lines written to the console

vars == <<navigator_gpu, host, pc, status, promise, adapter, device, calls,
          objects, buffers, encoder, pass, submits, queue, gpu, resultArray,
          console>>

----------------------------------------------------------------------------
(* Call sites and awaited requests *)

Requests == {"requestAdapter", "requestDevice", "mapAsync"}

Creations == {"createShaderModule", "createBuffer_buffer",
              "createBuffer_outputBuffer", "createBindGroupLayout",
              "createBindGroup", "createPipelineLayout",
              "createComputePipeline", "createCommandEncoder",
              "beginComputePass", "finish"}

Sites == Requests \cup Creations \cup
         {"console.error", "setPipeline", "setBindGroup",
          "dispatchWorkgroups", "end", "copyBufferToBuffer", "submit",
          "getMappedRange", "console.log", "unmap"}

Called(site) == [calls EXCEPT ![site] = @ + 1]

----------------------------------------------------------------------------
(* u32 values and their little-endian bytes in buffer memory *)

\* the four low-order bytes of v: a store of a u32 keeps v modulo 2^32
ToBytes(v) == [i \in 0..3 |-> (v \div (256 ^ i)) % 256]

LoadU32(data, off) ==
    data[off] + 256 * data[off + 1] + 65536 * data[off + 2]
              + 16777216 * data[off + 3]

StoreU32(data, off, v) ==
    [i \in DOMAIN data |->
        IF i >= off /\ i < off + 4 THEN ToBytes(v)[i - off] ELSE data[i]]

bufferSize == 4

\* fn main: data[0] = 2u + 2u;
ShaderMain(data) == StoreU32(data, 0, 2 + 2)

RECURSIVE RunInvocations(_, _)
RunInvocations(data, n) ==
    IF n = 0 THEN data ELSE RunInvocations(ShaderMain(data), n - 1)

\* new Uint32Array(arrayBuffer)
Uint32Array(data) ==
    [i \in 1..(Cardinality(DOMAIN data) \div 4) |-> LoadU32(data, 4 * (i - 1))]

NewBuffer(size, usage) ==
    [size |-> size, usage |-> usage, mapState |-> "unmapped",
     data |-> [i \in 0..(size - 1) |-> 0]]

----------------------------------------------------------------------------
(* The state when the script starts: line 112 calls the function.  The      *)
(* browser is the script's only input: whether navigator.gpu exists and how *)
(* it answers each awaited request (an adapter, null or a rejection; a      *)
(* device or a rejection; a resolved or rejected map).  The answers are     *)
(* fixed with the browser and read when the host settles the promise.       *)

HostAnswers == [adapter : {"adapter", "null", "reject"},
                device  : {"device", "reject"},
                map     : {"resolve", "reject"}]

Init ==
    /\ navigator_gpu \in BOOLEAN
    /\ host \in HostAnswers
    /\ pc = 4
    /\ status = "running"
    /\ promise = [r \in Requests |-> "none"]
    /\ adapter = "unset"
    /\ device = "unset"
    /\ calls = [s \in Sites |-> 0]
    /\ objects = <<>>
    /\ buffers = <<>>
    /\ encoder = [state |-> "none", cmds |-> <<>>, valid |-> TRUE]
    /\ pass = [state |-> "none", pipeline |-> FALSE, bindGroup |-> FALSE]
    /\ submits = <<>>
    /\ queue = <<>>
    /\ gpu = [pipeline |-> "none", bindGroup |-> "none"]
    /\ resultArray = <<>>
    /\ console = <<>>

At(line) == status = "running" /\ pc = line

hostVars == <<navigator_gpu, host>>
gpuVars == <<objects, buffers, encoder, pass, submits, queue, gpu>>

----------------------------------------------------------------------------
(* Lines 4-7: the capability check *)

CheckGpu ==
    /\ At(4)
    /\ pc' = IF ~navigator_gpu THEN 5 ELSE 11
    /\ UNCHANGED <<hostVars, status, promise, adapter, device, calls,
                   gpuVars, resultArray, console>>

LogUnsupported ==
    /\ At(5)
    /\ console' = Append(console,
          [level |-> "error",
           args |-> <<"WebGPU is not supported on this browser.">>])
    /\ calls' = Called("console.error")
    /\ pc' = 6
    /\ UNCHANGED <<hostVars, status, promise, adapter, device, gpuVars,
                   resultArray>>

\* the return of line 6 left out: the function falls through to line 11
ReturnUnsupported_FallThrough ==
    /\ At(6)
    /\ pc' = 11
    /\ UNCHANGED <<hostVars, status, promise, adapter, device, calls, gpuVars,
                   resultArray, console>>

ReturnUnsupported ==
    /\ At(6)
    /\ status' = "returned"
    /\ UNCHANGED <<hostVars, pc, promise, adapter, device, calls, gpuVars,
                   resultArray, console>>

----------------------------------------------------------------------------
(* Awaited requests: the call suspends the function, the host settles the   *)
(* promise, and the function resumes after the await or throws.             *)

Await(req) ==
    /\ promise' = [promise EXCEPT ![req] = "pending"]
    /\ calls' = Called(req)
    /\ status' = "suspended"

Settle(req, ok) ==
    /\ promise[req] = "pending"
    /\ promise' = [promise EXCEPT ![req] = IF ok THEN "fulfilled" ELSE "rejected"]

Resume(line, req, next) ==
    /\ status = "suspended"
    /\ pc = line
    /\ promise[req] \in {"fulfilled", "rejected"}
    /\ IF promise[req] = "fulfilled"
          THEN status' = "running" /\ pc' = next
          ELSE status' = "threw" /\ pc' = pc

\* line 11 without its await: the function goes on while the request is pending
RequestAdapter_NoAwait ==
    /\ At(11)
    /\ promise' = [promise EXCEPT !["requestAdapter"] = "pending"]
    /\ calls' = Called("requestAdapter")
    /\ pc' = 12
    /\ UNCHANGED <<hostVars, status, adapter, device, gpuVars, resultArray,
                   console>>

\* line 11: navigator.gpu.requestAdapter()
RequestAdapter ==
    /\ At(11)
    /\ Await("requestAdapter")
    /\ UNCHANGED <<hostVars, pc, adapter, device, gpuVars, resultArray,
                   console>>

HostSettleAdapter ==
    /\ Settle("requestAdapter", host.adapter # "reject")
    /\ UNCHANGED <<hostVars, pc, status, adapter, device, calls, gpuVars,
                   resultArray, console>>

\* a rejected adapter request caught and the request issued again
ResumeAdapter_Retry ==
    /\ status = "suspended"
    /\ pc = 11
    /\ promise["requestAdapter"] \in {"fulfilled", "rejected"}
    /\ status' = "running"
    /\ pc' = IF promise["requestAdapter"] = "fulfilled" THEN 12 ELSE 11
    /\ adapter' = IF promise["requestAdapter"] = "fulfilled"
                     THEN host.adapter ELSE adapter
    /\ UNCHANGED <<hostVars, promise, device, calls, gpuVars, resultArray,
                   console>>

ResumeAdapter ==
    /\ Resume(11, "requestAdapter", 12)
    /\ adapter' = IF promise["requestAdapter"] = "fulfilled"
                     THEN host.adapter ELSE adapter
    /\ UNCHANGED <<hostVars, promise, device, calls, gpuVars, resultArray,
                   console>>

\* line 12 without its await: resources are created while the request is pending
RequestDevice_NoAwait ==
    /\ At(12)
    /\ IF adapter = "adapter"
          THEN /\ promise' = [promise EXCEPT !["requestDevice"] = "pending"]
               /\ calls' = Called("requestDevice")
               /\ pc' = 30
               /\ UNCHANGED status
          ELSE status' = "threw" /\ UNCHANGED <<promise, calls, pc>>
    /\ UNCHANGED <<hostVars, adapter, device, gpuVars, resultArray, console>>

\* line 12 guarded by a second check that reports a null adapter as unsupported
RequestDevice_NullChecked ==
    /\ At(12)
    /\ IF adapter = "adapter"
          THEN Await("requestDevice") /\ UNCHANGED console
          ELSE /\ status' = "returned"
               /\ console' = Append(console,
                     [level |-> "error",
                      args |-> <<"WebGPU is not supported on this browser.">>])
               /\ UNCHANGED <<promise, calls>>
    /\ UNCHANGED <<hostVars, pc, adapter, device, gpuVars, resultArray>>

\* line 12: adapter.requestDevice(); a null adapter makes the call throw
RequestDevice ==
    /\ At(12)
    /\ IF adapter = "adapter"
          THEN Await("requestDevice")
          ELSE status' = "threw" /\ UNCHANGED <<promise, calls>>
    /\ UNCHANGED <<hostVars, pc, adapter, device, gpuVars, resultArray,
                   console>>

HostSettleDevice ==
    /\ Settle("requestDevice", host.device # "reject")
    /\ UNCHANGED <<hostVars, pc, status, adapter, device, calls, gpuVars,
                   resultArray, console>>

ResumeDevice ==
    /\ Resume(12, "requestDevice", 30)
    /\ device' = IF promise["requestDevice"] = "fulfilled"
                    THEN host.device ELSE device
    /\ UNCHANGED <<hostVars, promise, adapter, calls, gpuVars, resultArray,
                   console>>

----------------------------------------------------------------------------
(* Lines 30-76: resources created through the device *)

Create(line, next, site, name, obj) ==
    /\ At(line)
    /\ IF device = "device"
          THEN /\ objects' = objects @@ (name :> obj)
               /\ calls' = Called(site)
               /\ pc' = next
               /\ UNCHANGED status
          ELSE /\ status' = "threw"
               /\ UNCHANGED <<objects, calls, pc>>
    /\ UNCHANGED <<hostVars, promise, adapter, device, buffers, encoder,
                   pass, submits, queue, gpu, resultArray, console>>

CreateBufferAt(line, next, site, name, usage) ==
    /\ At(line)
    /\ IF device = "device"
          THEN /\ buffers' = buffers @@ (name :> NewBuffer(bufferSize, usage))
               /\ calls' = Called(site)
               /\ pc' = next
               /\ UNCHANGED status
          ELSE /\ status' = "threw"
               /\ UNCHANGED <<buffers, calls, pc>>
    /\ UNCHANGED <<hostVars, promise, adapter, device, objects, encoder,
                   pass, submits, queue, gpu, resultArray, console>>

\* line 30
CreateShaderModule ==
    Create(30, 36, "createShaderModule", "shaderModule",
           [code |-> "shaderCode"])

\* the storage buffer created without COPY_SRC
CreateBuffer_StorageOnly ==
    CreateBufferAt(36, 44, "createBuffer_buffer", "buffer", {"STORAGE"})

\* lines 36-39
CreateBuffer ==
    CreateBufferAt(36, 44, "createBuffer_buffer", "buffer",
                   {"STORAGE", "COPY_SRC"})

\* lines 44-47
CreateOutputBuffer ==
    CreateBufferAt(44, 54, "createBuffer_outputBuffer", "outputBuffer",
                   {"COPY_DST", "MAP_READ"})

\* lines 54-60
CreateBindGroupLayout ==
    Create(54, 63, "createBindGroupLayout", "bindGroupLayout",
           [entries |-> <<[binding |-> 0, visibility |-> "COMPUTE",
                           type |-> "storage"]>>])

\* a storage binding needs a buffer created with STORAGE usage
BindGroupValid(layout, entries) ==
    /\ Len(entries) = Len(objects[layout].entries)
    /\ \A i \in 1..Len(entries) :
         /\ entries[i].binding = objects[layout].entries[i].binding
         /\ entries[i].buffer \in DOMAIN buffers
         /\ objects[layout].entries[i].type = "storage"
               => "STORAGE" \in buffers[entries[i].buffer].usage

BindGroupEntries == <<[binding |-> 0, buffer |-> "buffer"]>>

\* lines 63-66
CreateBindGroup ==
    Create(63, 72, "createBindGroup", "bindGroup",
           [layout |-> "bindGroupLayout", entries |-> BindGroupEntries,
            valid |-> BindGroupValid("bindGroupLayout", BindGroupEntries)])

\* line 72
CreatePipelineLayout ==
    Create(72, 73, "createPipelineLayout", "pipelineLayout",
           [bindGroupLayouts |-> <<"bindGroupLayout">>])

\* lines 73-76
CreateComputePipeline ==
    Create(73, 85, "createComputePipeline", "computePipeline",
           [layout |-> "pipelineLayout", module |-> "shaderModule",
            entryPoint |-> "main"])

----------------------------------------------------------------------------
(* Lines 85-98: command encoding and submission *)

Cmd(op, args) == [op |-> op, args |-> args]

Record(cmd, ok) ==
    [encoder EXCEPT !.cmds = Append(@, cmd), !.valid = @ /\ ok]

\* line 85
CreateCommandEncoder ==
    /\ At(85)
    /\ IF device = "device"
          THEN /\ encoder' = [state |-> "open", cmds |-> <<>>, valid |-> TRUE]
               /\ calls' = Called("createCommandEncoder")
               /\ pc' = 86
               /\ UNCHANGED status
          ELSE /\ status' = "threw"
               /\ UNCHANGED <<encoder, calls, pc>>
    /\ UNCHANGED <<hostVars, promise, adapter, device, objects, buffers,
                   pass, submits, queue, gpu, resultArray, console>>

\* line 86
BeginComputePass ==
    /\ At(86)
    /\ encoder' = [Record(Cmd("beginComputePass", <<>>),
                          encoder.state = "open")
                      EXCEPT !.state = "locked"]
    /\ pass' = [state |-> "open", pipeline |-> FALSE, bindGroup |-> FALSE]
    /\ calls' = Called("beginComputePass")
    /\ pc' = 87
    /\ UNCHANGED <<hostVars, status, promise, adapter, device, objects,
                   buffers, submits, queue, gpu, resultArray, console>>

\* line 87
SetPipeline ==
    /\ At(87)
    /\ encoder' = Record(Cmd("setPipeline", <<"computePipeline">>),
                         pass.state = "open"
                           /\ "computePipeline" \in DOMAIN objects)
    /\ pass' = [pass EXCEPT !.pipeline = TRUE]
    /\ calls' = Called("setPipeline")
    /\ pc' = 88
    /\ UNCHANGED <<hostVars, status, promise, adapter, device, objects,
                   buffers, submits, queue, gpu, resultArray, console>>

\* line 88
SetBindGroup ==
    /\ At(88)
    /\ encoder' = Record(Cmd("setBindGroup", <<0, "bindGroup">>),
                         pass.state = "open"
                           /\ "bindGroup" \in DOMAIN objects
                           /\ objects["bindGroup"].valid)
    /\ pass' = [pass EXCEPT !.bindGroup = TRUE]
    /\ calls' = Called("setBindGroup")
    /\ pc' = 89
    /\ UNCHANGED <<hostVars, status, promise, adapter, device, objects,
                   buffers, submits, queue, gpu, resultArray, console>>

\* the dispatch statement duplicated
DispatchWorkgroups_Twice ==
    /\ At(89)
    /\ encoder' = [encoder EXCEPT
          !.cmds = @ \o <<Cmd("dispatchWorkgroups", <<1>>),
                          Cmd("dispatchWorkgroups", <<1>>)>>,
          !.valid = @ /\ pass.state = "open" /\ pass.pipeline
                      /\ pass.bindGroup]
    /\ calls' = [calls EXCEPT !["dispatchWorkgroups"] = @ + 2]
    /\ pc' = 90
    /\ UNCHANGED <<hostVars, status, promise, adapter, device, objects,
                   buffers, pass, submits, queue, gpu, resultArray, console>>

\* line 89
DispatchWorkgroups ==
    /\ At(89)
    /\ encoder' = Record(Cmd("dispatchWorkgroups", <<1>>),
                         pass.state = "open" /\ pass.pipeline
                           /\ pass.bindGroup)
    /\ calls' = Called("dispatchWorkgroups")
    /\ pc' = 90
    /\ UNCHANGED <<hostVars, status, promise, adapter, device, objects,
                   buffers, pass, submits, queue, gpu, resultArray, console>>

\* passEncoder.end() left out: the pass stays open and the encoder locked
EndPass_Missing ==
    /\ At(90)
    /\ pc' = 96
    /\ UNCHANGED <<hostVars, status, promise, adapter, device, calls, objects,
                   buffers, encoder, pass, submits, queue, gpu, resultArray,
                   console>>

\* line 90
EndPass ==
    /\ At(90)
    /\ encoder' = [Record(Cmd("end", <<>>), pass.state = "open")
                      EXCEPT !.state = "open"]
    /\ pass' = [pass EXCEPT !.state = "ended"]
    /\ calls' = Called("end")
    /\ pc' = 96
    /\ UNCHANGED <<hostVars, status, promise, adapter, device, objects,
                   buffers, submits, queue, gpu, resultArray, console>>

\* copyBufferToBuffer validation: usages, alignment and ranges
CopyValid(src, srcOffset, dst, dstOffset, size) ==
    /\ encoder.state = "open"
    /\ src \in DOMAIN buffers /\ dst \in DOMAIN buffers
    /\ src # dst
    /\ "COPY_SRC" \in buffers[src].usage
    /\ "COPY_DST" \in buffers[dst].usage
    /\ size % 4 = 0 /\ srcOffset % 4 = 0 /\ dstOffset % 4 = 0
    /\ srcOffset + size <= buffers[src].size
    /\ dstOffset + size <= buffers[dst].size

\* source and destination exchanged
CopyArgs_Reversed == <<"outputBuffer", 0, "buffer", 0, bufferSize>>

CopyArgs == <<"buffer", 0, "outputBuffer", 0, bufferSize>>

\* line 96
CopyBufferToBuffer ==
    /\ At(96)
    /\ encoder' = Record(Cmd("copyBufferToBuffer", CopyArgs),
                         CopyValid(CopyArgs[1], CopyArgs[2], CopyArgs[3],
                                   CopyArgs[4], CopyArgs[5]))
    /\ calls' = Called("copyBufferToBuffer")
    /\ pc' = 97
    /\ UNCHANGED <<hostVars, status, promise, adapter, device, objects,
                   buffers, pass, submits, queue, gpu, resultArray, console>>

\* line 97
Finish ==
    /\ At(97)
    /\ objects' = objects @@
          ("commands" :> [cmds |-> encoder.cmds,
                          valid |-> encoder.valid /\ encoder.state = "open"])
    /\ encoder' = [encoder EXCEPT !.state = "finished"]
    /\ calls' = Called("finish")
    /\ pc' = 98
    /\ UNCHANGED <<hostVars, status, promise, adapter, device, buffers,
                   pass, submits, queue, gpu, resultArray, console>>

\* a submission is dropped when a command buffer is invalid or a buffer is mapped
SubmitValid(list) ==
    /\ \A i \in 1..Len(list) : objects[list[i]].valid
    /\ \A b \in DOMAIN buffers : buffers[b].mapState = "unmapped"

RECURSIVE Concat(_)
Concat(list) ==
    IF list = <<>> THEN <<>>
    ELSE objects[Head(list)].cmds \o Concat(Tail(list))

SubmitList == <<"commands">>

\* line 98
Submit ==
    /\ At(98)
    /\ queue' = IF SubmitValid(SubmitList)
                   THEN queue \o Concat(SubmitList) ELSE queue
    /\ submits' = Append(submits, Len(SubmitList))
    /\ calls' = Called("submit")
    /\ pc' = 106
    /\ UNCHANGED <<hostVars, status, promise, adapter, device, objects,
                   buffers, encoder, pass, gpu, resultArray, console>>

----------------------------------------------------------------------------
(* The GPU timeline: submitted commands execute in order, one at a time,    *)
(* concurrently with the script.  Buffers start zero-filled, invalid        *)
(* commands invalidate the command buffer and an invalid submission is      *)
(* dropped, as the host API defines.                                        *)

CopyBytes(src, srcOffset, dst, dstOffset, size) ==
    [i \in DOMAIN dst |->
        IF i >= dstOffset /\ i < dstOffset + size
           THEN src[srcOffset + (i - dstOffset)] ELSE dst[i]]

\* the buffer the bound group attaches to @group(0) @binding(0)
BoundBuffer == objects[gpu.bindGroup].entries[1].buffer

GpuExecute ==
    /\ queue # <<>>
    /\ LET cmd == Head(queue) IN
         /\ queue' = Tail(queue)
         /\ gpu' = CASE cmd.op = "beginComputePass" ->
                          [pipeline |-> "none", bindGroup |-> "none"]
                     [] cmd.op = "setPipeline" ->
                          [gpu EXCEPT !.pipeline = cmd.args[1]]
                     [] cmd.op = "setBindGroup" ->
                          [gpu EXCEPT !.bindGroup = cmd.args[2]]
                     [] OTHER -> gpu
         /\ buffers' =
              CASE cmd.op = "dispatchWorkgroups" ->
                     [buffers EXCEPT ![BoundBuffer].data =
                         RunInvocations(@, cmd.args[1])]
                [] cmd.op = "copyBufferToBuffer" ->
                     [buffers EXCEPT ![cmd.args[3]].data =
                         CopyBytes(buffers[cmd.args[1]].data, cmd.args[2],
                                   @, cmd.args[4], cmd.args[5])]
                [] OTHER -> buffers
    /\ UNCHANGED <<hostVars, pc, status, promise, adapter, device, calls,
                   objects, encoder, pass, submits, resultArray, console>>

----------------------------------------------------------------------------
(* Lines 106-109: map the output buffer, read and print the result *)

\* mapAsync validation: MAP_READ usage and an unmapped buffer
MapValid(b) ==
    /\ b \in DOMAIN buffers
    /\ "MAP_READ" \in buffers[b].usage
    /\ buffers[b].mapState = "unmapped"

\* line 106 without its await: the range is taken while the map is pending
MapAsync_NoAwait ==
    /\ At(106)
    /\ promise' = [promise EXCEPT !["mapAsync"] = "pending"]
    /\ calls' = Called("mapAsync")
    /\ pc' = 107
    /\ buffers' = IF MapValid("outputBuffer")
                     THEN [buffers EXCEPT !["outputBuffer"].mapState = "pending"]
                     ELSE buffers
    /\ UNCHANGED <<hostVars, status, adapter, device, objects, encoder, pass,
                   submits, queue, gpu, resultArray, console>>

\* line 106: outputBuffer.mapAsync(GPUMapMode.READ)
MapAsync ==
    /\ At(106)
    /\ Await("mapAsync")
    /\ buffers' = IF MapValid("outputBuffer")
                     THEN [buffers EXCEPT !["outputBuffer"].mapState = "pending"]
                     ELSE buffers
    /\ UNCHANGED <<hostVars, pc, adapter, device, objects, encoder, pass,
                   submits, queue, gpu, resultArray, console>>

\* the map resolves once the work submitted before it has completed
HostSettleMap ==
    /\ promise["mapAsync"] = "pending"
    /\ LET ok == host.map = "resolve"
                   /\ buffers["outputBuffer"].mapState = "pending"
       IN /\ ok => queue = <<>>
          /\ Settle("mapAsync", ok)
          /\ buffers' = [buffers EXCEPT !["outputBuffer"].mapState =
                            IF ok THEN "mapped" ELSE "unmapped"]
    /\ UNCHANGED <<hostVars, pc, status, adapter, device, calls, objects,
                   encoder, pass, submits, queue, gpu, resultArray, console>>

ResumeMap ==
    /\ Resume(106, "mapAsync", 107)
    /\ UNCHANGED <<hostVars, promise, adapter, device, calls, gpuVars,
                   resultArray, console>>

\* line 107: getMappedRange throws unless the buffer is mapped
GetMappedRange ==
    /\ At(107)
    /\ IF buffers["outputBuffer"].mapState = "mapped"
          THEN /\ resultArray' = Uint32Array(buffers["outputBuffer"].data)
               /\ calls' = Called("getMappedRange")
               /\ pc' = 108
               /\ UNCHANGED status
          ELSE /\ status' = "threw"
               /\ UNCHANGED <<resultArray, calls, pc>>
    /\ UNCHANGED <<hostVars, promise, adapter, device, gpuVars, console>>

\* resultArray[0]: undefined (here -1) when the view is empty or detached
ResultElement0 == IF Len(resultArray) >= 1 THEN resultArray[1] ELSE -1

\* line 108
LogResult ==
    /\ At(108)
    /\ console' = Append(console,
          [level |-> "log", args |-> <<"Result: ", ResultElement0>>])
    /\ calls' = Called("console.log")
    /\ pc' = 109
    /\ UNCHANGED <<hostVars, status, promise, adapter, device, gpuVars,
                   resultArray>>

\* line 109: unmap detaches the mapped range; line 110: the function returns
Unmap ==
    /\ At(109)
    /\ buffers' = [buffers EXCEPT !["outputBuffer"].mapState = "unmapped"]
    /\ resultArray' = <<>>
    /\ calls' = Called("unmap")
    /\ pc' = 110
    /\ status' = "returned"
    /\ UNCHANGED <<hostVars, promise, adapter, device, objects, encoder,
                   pass, submits, queue, gpu, console>>

----------------------------------------------------------------------------

Next ==
    \/ CheckGpu \/ LogUnsupported \/ ReturnUnsupported
    \/ RequestAdapter \/ HostSettleAdapter \/ ResumeAdapter
    \/ RequestDevice \/ HostSettleDevice \/ ResumeDevice
    \/ CreateShaderModule \/ CreateBuffer \/ CreateOutputBuffer
    \/ CreateBindGroupLayout \/ CreateBindGroup
    \/ CreatePipelineLayout \/ CreateComputePipeline
    \/ CreateCommandEncoder \/ BeginComputePass \/ SetPipeline
    \/ SetBindGroup \/ DispatchWorkgroups \/ EndPass
    \/ CopyBufferToBuffer \/ Finish \/ Submit
    \/ GpuExecute
    \/ MapAsync \/ HostSettleMap \/ ResumeMap
    \/ GetMappedRange \/ LogResult \/ Unmap

Spec == Init /\ [][Next]_vars

----------------------------------------------------------------------------
(* Vocabulary of the properties *)

Pending == {r \in Requests : promise[r] = "pending"}

LogLines == {i \in DOMAIN console : console[i].level = "log"}
ErrorLines == {i \in DOMAIN console : console[i].level = "error"}

Threw == status = "threw"
Completed == status = "returned" /\ pc = 110

Ops(cmds) == [i \in 1..Len(cmds) |-> cmds[i].op]

IsPrefix(s, t) == Len(s) <= Len(t) /\ \A i \in 1..Len(s) : s[i] = t[i]

Positions(cmds, op) == {i \in 1..Len(cmds) : cmds[i].op = op}

EncodedOrder == <<"beginComputePass", "setPipeline", "setBindGroup",
                  "dispatchWorkgroups", "end", "copyBufferToBuffer">>

Touched == \E s \in Sites \ {"console.error"} : calls[s] > 0

Four == ToBytes(4)

----------------------------------------------------------------------------
(* C1: every "Result: " line carries the value 4: when the result is read   *)
(* the storage buffer holds 2+2 in element 0, the output buffer holds the   *)
(* same four bytes, and resultArray[0] is that value.                       *)
C1_ResultIsFour ==
    /\ \A i \in LogLines : console[i].args = <<"Result: ", 4>>
    /\ calls["getMappedRange"] = 1 =>
          /\ buffers["buffer"].data = Four
          /\ buffers["outputBuffer"].data = buffers["buffer"].data
    /\ At(108) => resultArray = <<4>>

C1_Witness ==
    /\ Completed
    /\ navigator_gpu
    /\ \A r \in Requests : promise[r] = "fulfilled"
    /\ console = <<[level |-> "log", args |-> <<"Result: ", 4>>]>>

(* C2: without navigator.gpu the run logs the unsupported error and        *)
(* returns; it requests nothing, creates nothing, submits nothing and      *)
(* prints no result.                                                       *)
C2_UnsupportedAborts ==
    ~navigator_gpu =>
        /\ ~Touched
        /\ \A r \in Requests : promise[r] = "none"
        /\ adapter = "unset" /\ device = "unset"
        /\ objects = <<>> /\ buffers = <<>>
        /\ encoder.state = "none" /\ pass.state = "none"
        /\ submits = <<>> /\ queue = <<>>
        /\ LogLines = {}
        /\ pc \in {4, 5, 6}
        /\ status \in {"running", "returned"}
        /\ status = "returned" =>
              console = <<[level |-> "error",
                  args |-> <<"WebGPU is not supported on this browser.">>]>>

C2_Witness ==
    /\ ~navigator_gpu
    /\ status = "returned"
    /\ Len(console) = 1

(* C3: a run dispatches at most once, with workgroup count 1, submits at   *)
(* most once, and the submitted list holds one command buffer; a run that  *)
(* reaches the print has done each exactly once.                           *)
C3_OneDispatch ==
    /\ calls["dispatchWorkgroups"] <= 1
    /\ calls["submit"] <= 1
    /\ Len(submits) = calls["submit"]
    /\ \A i \in DOMAIN submits : submits[i] = 1
    /\ Cardinality(Positions(encoder.cmds, "dispatchWorkgroups"))
          = calls["dispatchWorkgroups"]
    /\ \A i \in Positions(encoder.cmds, "dispatchWorkgroups") :
          encoder.cmds[i].args = <<1>>
    /\ Cardinality(Positions(queue, "dispatchWorkgroups")) <= 1
    /\ calls["console.log"] > 0 =>
          /\ calls["dispatchWorkgroups"] = 1
          /\ calls["submit"] = 1
          /\ submits = <<1>>
          /\ Cardinality(Positions(objects["commands"].cmds,
                                   "dispatchWorkgroups")) = 1

C3_Witness ==
    /\ calls["console.log"] = 1
    /\ calls["dispatchWorkgroups"] = 1
    /\ submits = <<1>>

(* C4: the steps happen in order: adapter resolved before the device is    *)
(* requested, device resolved before anything is created, the submission   *)
(* holds the dispatch followed by the copy, mapAsync comes after submit    *)
(* and the print after the map resolved.                                   *)
C4_StepOrder ==
    /\ promise["requestDevice"] # "none" =>
          promise["requestAdapter"] = "fulfilled" /\ adapter = "adapter"
    /\ (pc >= 30 \/ objects # <<>> \/ buffers # <<>>
           \/ encoder.state # "none") =>
          promise["requestDevice"] = "fulfilled" /\ device = "device"
    /\ calls["submit"] > 0 =>
          /\ "commands" \in DOMAIN objects
          /\ objects["commands"].valid
          /\ \E d \in Positions(objects["commands"].cmds, "dispatchWorkgroups") :
             \E c \in Positions(objects["commands"].cmds, "copyBufferToBuffer") :
                d < c
    /\ queue # <<>> => calls["submit"] > 0
    /\ promise["mapAsync"] # "none" => calls["submit"] = 1
    /\ LogLines # {} =>
          promise["mapAsync"] = "fulfilled" /\ calls["submit"] = 1

C4_Witness ==
    /\ LogLines # {}
    /\ calls["submit"] = 1
    /\ promise["mapAsync"] = "fulfilled"
    /\ queue = <<>>

(* C5: the script is linear: every host call site runs at most once, a     *)
(* finished or failed run makes no further call (nothing is retried), the  *)
(* capability check is the only place where the next statement depends on  *)
(* a condition, and a completed run has created each object exactly once.  *)
NextLine(line) ==
    CASE line = 5 -> {6}        [] line = 11 -> {12}     [] line = 12 -> {30}
      [] line = 30 -> {36}      [] line = 36 -> {44}     [] line = 44 -> {54}
      [] line = 54 -> {63}      [] line = 63 -> {72}     [] line = 72 -> {73}
      [] line = 73 -> {85}      [] line = 85 -> {86}     [] line = 86 -> {87}
      [] line = 87 -> {88}      [] line = 88 -> {89}     [] line = 89 -> {90}
      [] line = 90 -> {96}      [] line = 96 -> {97}     [] line = 97 -> {98}
      [] line = 98 -> {106}     [] line = 106 -> {107}   [] line = 107 -> {108}
      [] line = 108 -> {109}    [] line = 109 -> {110}
      [] OTHER -> {}

C5_Counts ==
    /\ \A s \in Sites : calls[s] <= 1
    /\ Completed =>
          /\ \A s \in Sites \ {"console.error"} : calls[s] = 1
          /\ DOMAIN objects = {"shaderModule", "bindGroupLayout", "bindGroup",
                               "pipelineLayout", "computePipeline", "commands"}
          /\ DOMAIN buffers = {"buffer", "outputBuffer"}

C5_Step ==
    /\ status \in {"returned", "threw"} =>
          /\ calls' = calls /\ objects' = objects /\ submits' = submits
          /\ pc' = pc /\ status' = status
          /\ DOMAIN buffers' = DOMAIN buffers
    /\ pc' # pc =>
          IF pc = 4 THEN pc' = (IF navigator_gpu THEN 11 ELSE 5)
                    ELSE pc' \in NextLine(pc)
    /\ \A n \in DOMAIN objects :
          n \in DOMAIN objects' /\ objects'[n] = objects[n]
    /\ DOMAIN buffers \subseteq DOMAIN buffers'

C5_LinearScript == []C5_Counts /\ [][C5_Step]_vars

C5_Witness ==
    /\ Completed
    /\ \A s \in Creations : calls[s] = 1
    /\ Cardinality(DOMAIN objects) = 6

(* C6: the run suspends only at requestAdapter, requestDevice and          *)
(* mapAsync; at most one request is outstanding, the script never runs     *)
(* while one is, and each request is issued after the previous resolved.   *)
C6_SingleAwaitChain ==
    /\ Cardinality(Pending) <= 1
    /\ status = "suspended" => pc \in {11, 12, 106}
    /\ status = "running" => Pending = {}
    /\ status = "suspended" =>
          LET req == CASE pc = 11 -> "requestAdapter"
                       [] pc = 12 -> "requestDevice"
                       [] OTHER -> "mapAsync"
          IN promise[req] # "none"
    /\ promise["requestDevice"] # "none" => promise["requestAdapter"] = "fulfilled"
    /\ promise["mapAsync"] # "none" => promise["requestDevice"] = "fulfilled"

C6_Witness ==
    /\ status = "suspended"
    /\ pc = 106
    /\ Pending = {"mapAsync"}
    /\ queue # <<>>

(* C7: outputBuffer goes unmapped -> pending -> mapped -> unmapped (a      *)
(* rejected map returns it from pending to unmapped); the map is requested *)
(* after submit, the range is taken and read only while mapped, the print  *)
(* precedes unmap, and a completed run leaves the buffer unmapped and the  *)
(* view detached.                                                          *)
MapTransitions == {<<"unmapped", "pending">>, <<"pending", "mapped">>,
                   <<"mapped", "unmapped">>}

C7_State ==
    /\ "outputBuffer" \in DOMAIN buffers =>
          /\ buffers["outputBuffer"].mapState # "unmapped" => calls["submit"] = 1
          /\ buffers["outputBuffer"].mapState = "pending"
                <=> promise["mapAsync"] = "pending"
          /\ buffers["outputBuffer"].mapState = "mapped"
                => promise["mapAsync"] = "fulfilled"
    /\ promise["mapAsync"] # "none" => calls["submit"] = 1
    /\ (At(107) \/ At(108) \/ At(109)) =>
          buffers["outputBuffer"].mapState = "mapped"
    /\ resultArray # <<>> => buffers["outputBuffer"].mapState = "mapped"
    /\ calls["unmap"] = 1 => calls["console.log"] = 1
    /\ calls["console.log"] = 1 => calls["getMappedRange"] = 1
    /\ Completed =>
          buffers["outputBuffer"].mapState = "unmapped" /\ resultArray = <<>>

C7_Step ==
    ("outputBuffer" \in DOMAIN buffers /\
     buffers'["outputBuffer"].mapState # buffers["outputBuffer"].mapState) =>
        \/ <<buffers["outputBuffer"].mapState,
             buffers'["outputBuffer"].mapState>> \in MapTransitions
        \/ /\ buffers["outputBuffer"].mapState = "pending"
           /\ buffers'["outputBuffer"].mapState = "unmapped"
           /\ promise'["mapAsync"] = "rejected"

CopyExecuted ==
    /\ calls["submit"] = 1
    /\ Positions(queue, "copyBufferToBuffer") = {}

C8_State ==
    /\ IsPrefix(Ops(encoder.cmds), EncodedOrder)
    /\ encoder.valid
    /\ pass.state = "ended" <=> calls["end"] = 1
    /\ calls["copyBufferToBuffer"] = 1 => pass.state = "ended"
    /\ encoder.state = "finished" <=> calls["finish"] = 1
    /\ calls["finish"] = 1 =>
          /\ Ops(objects["commands"].cmds) = EncodedOrder
          /\ objects["commands"].cmds = encoder.cmds
          /\ objects["commands"].valid
    /\ calls["submit"] = 1 => calls["finish"] = 1
    /\ "outputBuffer" \in DOMAIN buffers =>
          buffers["outputBuffer"].data =
              IF CopyExecuted THEN Four ELSE [i \in 0..3 |-> 0]

C8_Step == encoder.state = "finished" => encoder' = encoder

C8_EncodingOrder == []C8_State /\ [][C8_Step]_vars

C8_Witness ==
    /\ CopyExecuted
    /\ buffers["outputBuffer"].data = Four
    /\ encoder.state = "finished"

(* C9: each buffer is used only as its declared usage allows: the buffer   *)
(* bound at binding 0 and copied from has STORAGE|COPY_SRC and is never    *)
(* mapped, the buffer copied to and mapped has COPY_DST|MAP_READ and is    *)
(* never bound; both are 4 bytes and the copy range [0, 4) fits in both.   *)
C9_BufferUsage ==
    /\ "buffer" \in DOMAIN buffers =>
          /\ buffers["buffer"].usage = {"STORAGE", "COPY_SRC"}
          /\ buffers["buffer"].size = 4
          /\ buffers["buffer"].mapState = "unmapped"
    /\ "outputBuffer" \in DOMAIN buffers =>
          /\ buffers["outputBuffer"].usage = {"COPY_DST", "MAP_READ"}
          /\ buffers["outputBuffer"].size = 4
    /\ "bindGroup" \in DOMAIN objects =>
          /\ objects["bindGroup"].valid
          /\ \A i \in DOMAIN objects["bindGroup"].entries :
                LET e == objects["bindGroup"].entries[i] IN
                   /\ e.binding = 0
                   /\ e.buffer = "buffer"
                   /\ "STORAGE" \in buffers[e.buffer].usage
    /\ \A i \in Positions(encoder.cmds, "copyBufferToBuffer") :
          LET a == encoder.cmds[i].args IN
             /\ a[1] = "buffer" /\ a[3] = "outputBuffer"
             /\ "COPY_SRC" \in buffers[a[1]].usage
             /\ "COPY_DST" \in buffers[a[3]].usage
             /\ a[2] = 0 /\ a[4] = 0 /\ a[5] = 4
             /\ a[2] + a[5] <= buffers[a[1]].size
             /\ a[4] + a[5] <= buffers[a[3]].size
    /\ gpu.bindGroup # "none" => BoundBuffer = "buffer"
    /\ promise["mapAsync"] # "none" =>
          "MAP_READ" \in buffers["outputBuffer"].usage
    /\ encoder.valid

C9_Witness ==
    /\ calls["copyBufferToBuffer"] = 1
    /\ buffers["outputBuffer"].mapState = "mapped"
    /\ gpu.bindGroup = "bindGroup"

(* C10: only the capability check is handled.  A null adapter or a        *)
(* rejected request ends the run as thrown at that point: no later step   *)
(* runs, nothing is submitted afterwards, no result is printed and the    *)
(* unsupported-browser message is not logged; a result is printed only    *)
(* when all three requests resolved, and then once.                       *)
HostFails ==
    \/ host.adapter # "adapter"
    \/ host.device = "reject"
    \/ host.map = "reject"

C10_State ==
    /\ navigator_gpu => ErrorLines = {}
    /\ adapter = "null" =>
          /\ pc = 12
          /\ calls["requestDevice"] = 0
          /\ status \in {"running", "threw"}
    /\ \A r \in Requests : promise[r] = "rejected" =>
          /\ status \in {"suspended", "threw"}
          /\ pc = (CASE r = "requestAdapter" -> 11
                     [] r = "requestDevice" -> 12
                     [] OTHER -> 106)
    /\ Threw => console = <<>> /\ (calls["submit"] = 0 \/ pc >= 106)
    /\ (navigator_gpu /\ HostFails) =>
          /\ status # "returned"
          /\ LogLines = {}
          /\ pc <= 106
    /\ LogLines # {} => \A r \in Requests : promise[r] = "fulfilled"
    /\ Cardinality(LogLines) <= 1
    /\ Cardinality(LogLines) = calls["console.log"]

C10_Step ==
    Threw => /\ status' = status /\ pc' = pc /\ calls' = calls
             /\ console' = console /\ submits' = submits
             /\ objects' = objects /\ promise' = promise

C10_UnhandledFailures == []C10_State /\ [][C10_Step]_vars

C10_Witness ==
    /\ Threw
    /\ adapter = "null"
    /\ navigator_gpu
    /\ promise["requestAdapter"] = "fulfilled"

====
